---- MODULE Spec2Model ----
(***************************************************************************)
(* A model of dynamic_array<T, L> (src/src/dynamic_array.h): the array's   *)
(* three fields, the heap blocks it allocates with new char[] and the      *)
(* element objects it constructs and destroys in place.                    *)
(*                                                                         *)
(* A block is a sequence of slots; a slot holds Raw (no live object), a    *)
(* value of T, or Moved (a live, moved-from object).  Slot i of the code   *)
(* (m_storage + i * sizeof(T)) is slots[i + 1].  Every operation is an     *)
(* operator on a "world" record (arrays, heap, error flags, pending        *)
(* exception) so that the calls an operation makes compose in the order    *)
(* the code makes them.  Lengths are of type L, an unsigned type whose     *)
(* arithmetic is modulo LenMod.                                            *)
(***************************************************************************)
EXTENDS Integers, Sequences, FiniteSets, TLC

\* ---- bounds ----
MaxSize == 3
MaxCap == 3
MaxVal == 2
MaxBlocks == 5
\* the specification of two arrays
MaxPairSize == 2
MaxPairCap == 1
MaxPairVal == 1
\* the specification of push_back calls alone
MaxPushes == 6
\* the specification of copies and moves
MaxCopySize == 4
\* the specification of the searches
MaxSearchSize == 4
MaxSearchVal == 3

\* ---- the length type L (unsigned, scaled down from 2^32) ----
LenMod == 16

Arrays == {"foos", "foos_temp"}
\* the by-value parameter of operator=
Param == "other"
Names == Arrays \cup {Param}
Val == 1..MaxVal
Blocks == 1..MaxBlocks
Null == 0
Raw == -1
Moved == 0

VARIABLES arr, heap, lifeErr, heapErr, ub, last
vars == <<arr, heap, lifeErr, heapErr, ub, last>>

NoArray == [alive |-> FALSE, m_capacity |-> 0, m_size |-> 0, m_storage |-> Null]
NoBlock == [live |-> FALSE, slots |-> <<>>]

\* conversion of an int or of an arithmetic result to length_t
ToLen(n) == n % LenMod

\* conversion of a length_t to int, a signed type of the same width
ToInt(n) == IF n % LenMod >= LenMod \div 2 THEN (n % LenMod) - LenMod ELSE n % LenMod

World == [arr |-> arr, heap |-> heap, lifeErr |-> lifeErr, heapErr |-> heapErr,
          ub |-> ub, exc |-> "none", ret |-> 0]

Throw(w, e) == [w EXCEPT !.exc = e]

Return(w, r) == [w EXCEPT !.ret = r]

\* ---- the heap: new char[n * sizeof(T)] and delete[] ----
FreeIds(w) == {b \in Blocks : ~w.heap[b].live}

NewBlock(w) == CHOOSE b \in FreeIds(w) : \A c \in FreeIds(w) : b <= c

\* n slots that hold no object
RECURSIVE RawSlots(_)
RawSlots(n) == IF n = 0 THEN <<>> ELSE Append(RawSlots(n - 1), Raw)

AllocBlock(w, b, n) ==
    [w EXCEPT !.heap[b] = [live |-> TRUE, slots |-> RawSlots(n)]]

\* delete[]; an object still alive in the block is never destroyed
DeleteBlock(w, b) ==
    IF b = Null THEN w
    ELSE IF ~w.heap[b].live THEN [w EXCEPT !.heapErr = TRUE]
    ELSE IF \E k \in 1..Len(w.heap[b].slots) : w.heap[b].slots[k] # Raw
         THEN [w EXCEPT !.heap[b] = NoBlock, !.lifeErr = TRUE]
    ELSE [w EXCEPT !.heap[b] = NoBlock]

\* the outcomes of an allocation: it may always fail, and fails when the heap is full
AllocOutcomes(w) == IF FreeIds(w) = {} THEN {FALSE} ELSE {TRUE, FALSE}

\* ---- element objects: placement new, read, assignment, destructor call ----
InBlock(w, b, i) == b # Null /\ w.heap[b].live /\ i >= 0 /\ i < Len(w.heap[b].slots)

\* slot i of block b holds a live object
Readable(w, b, i) == InBlock(w, b, i) /\ w.heap[b].slots[i + 1] # Raw

\* the behaviour is undefined from here on; the model follows the run no further
Undefined(w) == [w EXCEPT !.ub = TRUE]

\* placement new: new (b + i * sizeof(T)) T(v)
ConstructAt(w, b, i, v) ==
    IF b # Null /\ ~w.heap[b].live THEN Undefined([w EXCEPT !.heapErr = TRUE])
    ELSE IF ~InBlock(w, b, i) THEN Undefined(w)
    ELSE IF w.heap[b].slots[i + 1] # Raw
         THEN [w EXCEPT !.lifeErr = TRUE, !.heap[b].slots[i + 1] = v]
    ELSE [w EXCEPT !.heap[b].slots[i + 1] = v]

ReadAt(w, b, i) == IF Readable(w, b, i) THEN w.heap[b].slots[i + 1] ELSE Raw

\* assignment to the object in slot i
AssignAt(w, b, i, v) ==
    IF b # Null /\ ~w.heap[b].live THEN Undefined([w EXCEPT !.heapErr = TRUE])
    ELSE IF ~Readable(w, b, i) THEN Undefined(w)
    ELSE [w EXCEPT !.heap[b].slots[i + 1] = v]

\* dynamic_array::remove: the destructor call on slot index
remove(w, x, index) ==
    LET b == w.arr[x].m_storage IN
    IF b # Null /\ ~w.heap[b].live THEN Undefined([w EXCEPT !.heapErr = TRUE])
    ELSE IF ~InBlock(w, b, index) THEN Undefined(w)
    ELSE IF w.heap[b].slots[index + 1] = Raw THEN Undefined([w EXCEPT !.lifeErr = TRUE])
    ELSE [w EXCEPT !.heap[b].slots[index + 1] = Raw]


\* a bounds check that takes index 0 for "no index"
OutOfRange_FalsyZero(w, x, index) == index = 0 \/ index >= w.arr[x].m_size

\* dynamic_array::assert: true when the index is rejected
OutOfRange(w, x, index) == index >= w.arr[x].m_size

\* for (length_t i = 0; i < m_size; i++) { remove(i); }
RECURSIVE RemoveLoop(_, _, _)
RemoveLoop(w, x, i) ==
    IF i < w.arr[x].m_size /\ ~w.ub THEN RemoveLoop(remove(w, x, i), x, i + 1) ELSE w

\* dynamic_array::free
free(w, x) ==
    IF w.arr[x].m_storage # Null
    THEN DeleteBlock(RemoveLoop(w, x, 0), w.arr[x].m_storage)
    ELSE w

\* dynamic_array::allocate
allocate(w, x, size) ==
    LET b == NewBlock(w) IN [AllocBlock(w, b, size) EXCEPT !.arr[x].m_storage = b]

\* dynamic_array(length_t capacity); dynamic_array() is CtorCapacity(w, x, 0, allocOk)
CtorCapacity(w, x, capacity, allocOk) ==
    IF ~allocOk THEN Throw(w, "bad_alloc")
    ELSE allocate([w EXCEPT !.arr[x] = [alive |-> TRUE, m_capacity |-> capacity,
                                        m_size |-> 0, m_storage |-> Null]],
                  x, capacity)

\* the loop of grow: move-construct element i of the old block into newStorage
RECURSIVE GrowLoop(_, _, _, _)
GrowLoop(w, x, newStorage, i) ==
    IF i < w.arr[x].m_size /\ ~w.ub
    THEN LET old == w.arr[x].m_storage
             w1 == ConstructAt(w, newStorage, i, ReadAt(w, old, i))
             w2 == AssignAt(w1, old, i, Moved)
         IN GrowLoop(w2, x, newStorage, i + 1)
    ELSE w


\* a grow that forgets the old block
grow_NoFree(w, x, capacity, allocOk) ==
    IF ~allocOk THEN Throw(w, "bad_alloc")
    ELSE LET newStorage == NewBlock(w)
             w1 == AllocBlock(w, newStorage, capacity)
             w2 == GrowLoop(w1, x, newStorage, 0)
         IN [w2 EXCEPT !.arr[x].m_storage = newStorage, !.arr[x].m_capacity = capacity]

\* a grow that releases the old block before it relocates the elements
grow_FreeFirst(w, x, capacity, allocOk) ==
    IF ~allocOk THEN Throw(w, "bad_alloc")
    ELSE LET newStorage == NewBlock(w)
             w1 == AllocBlock(w, newStorage, capacity)
             w2 == DeleteBlock(w1, w1.arr[x].m_storage)
             w3 == GrowLoop(w2, x, newStorage, 0)
         IN [w3 EXCEPT !.arr[x].m_storage = newStorage, !.arr[x].m_capacity = capacity]

\* dynamic_array::grow
grow(w, x, capacity, allocOk) ==
    IF ~allocOk THEN Throw(w, "bad_alloc")
    ELSE LET newStorage == NewBlock(w)
             w1 == AllocBlock(w, newStorage, capacity)
             w2 == GrowLoop(w1, x, newStorage, 0)
             w3 == free(w2, x)
         IN [w3 EXCEPT !.arr[x].m_storage = newStorage, !.arr[x].m_capacity = capacity]


\* a push_back that grows by one slot instead of doubling
push_back_GrowByOne(w, x, element, allocOk) ==
    LET a == w.arr[x]
        w1 == IF ToLen(a.m_size + 1) > a.m_capacity
              THEN grow(w, x, ToLen(a.m_capacity + 1), allocOk)
              ELSE w
    IN IF w1.exc # "none" THEN w1
       ELSE ConstructAt([w1 EXCEPT !.arr[x].m_size = ToLen(a.m_size + 1)],
                        w1.arr[x].m_storage, a.m_size, element)

\* a push_back that grows one element early (>= for >)
push_back_EagerGrow(w, x, element, allocOk) ==
    LET a == w.arr[x]
        w1 == IF ToLen(a.m_size + 1) >= a.m_capacity
              THEN grow(w, x, IF a.m_capacity # 0 THEN ToLen(2 * a.m_capacity) ELSE 1, allocOk)
              ELSE w
    IN IF w1.exc # "none" THEN w1
       ELSE ConstructAt([w1 EXCEPT !.arr[x].m_size = ToLen(a.m_size + 1)],
                        w1.arr[x].m_storage, a.m_size, element)

\* dynamic_array::push_back; the parameter already holds the element, and moving
\* it into the slot does not throw
push_back(w, x, element, allocOk) ==
    LET a == w.arr[x]
        w1 == IF ToLen(a.m_size + 1) > a.m_capacity
              THEN grow(w, x, IF a.m_capacity # 0 THEN ToLen(2 * a.m_capacity) ELSE 1, allocOk)
              ELSE w
    IN IF w1.exc # "none" THEN w1
       ELSE ConstructAt([w1 EXCEPT !.arr[x].m_size = ToLen(a.m_size + 1)],
                        w1.arr[x].m_storage, a.m_size, element)

\* dynamic_array::pop_back
pop_back(w, x) ==
    LET w1 == [w EXCEPT !.arr[x].m_size = ToLen(@ - 1)]
    IN remove(w1, x, w1.arr[x].m_size)

\* ~dynamic_array
Dtor(w, x) == [free(w, x) EXCEPT !.arr[x] = NoArray]

\* dynamic_array::operator[] (both forms): the element, or out_of_range
At(w, x, index) ==
    IF OutOfRange(w, x, index) THEN Throw(w, "out_of_range")
    ELSE IF ~Readable(w, w.arr[x].m_storage, index) THEN Undefined(w)
    ELSE Return(w, ReadAt(w, w.arr[x].m_storage, index))

\* dynamic_array::first
first(w, x) == At(w, x, 0)

\* dynamic_array::last
lastElem(w, x) == At(w, x, ToLen(w.arr[x].m_size - 1))

\* dynamic_array::last_index
last_index(w, x) ==
    IF OutOfRange(w, x, ToLen(w.arr[x].m_size - 1)) THEN Throw(w, "out_of_range")
    ELSE Return(w, ToLen(w.arr[x].m_size - 1))

\* a push_back whose parameter is a reference to the element: a growth releases
\* the block the reference points into before the element is read
push_back_of_ByReference(w, x, index, copyOk, allocOk) ==
    LET a == w.arr[x]
        w1 == At(w, x, index)
        w2 == IF ToLen(a.m_size + 1) > a.m_capacity
              THEN grow(w, x, IF a.m_capacity # 0 THEN ToLen(2 * a.m_capacity) ELSE 1, allocOk)
              ELSE w
    IN IF w1.exc # "none" \/ w1.ub THEN w1
       ELSE IF w2.exc # "none" THEN w2
       ELSE IF ~w2.heap[a.m_storage].live THEN Undefined([w2 EXCEPT !.heapErr = TRUE])
       ELSE ConstructAt([w2 EXCEPT !.arr[x].m_size = ToLen(a.m_size + 1)],
                        w2.arr[x].m_storage, a.m_size, ReadAt(w2, a.m_storage, index))

\* push_back((*this)[index]): the element is read and copied into the by-value
\* parameter (the copy may throw) before the body of push_back runs
push_back_of(w, x, index, copyOk, allocOk) ==
    LET w1 == At(w, x, index)
    IN IF w1.exc # "none" \/ w1.ub THEN w1
       ELSE IF ~copyOk THEN Throw(w, "copy_failed")
       ELSE push_back(w, x, w1.ret, allocOk)

\* dynamic_array::emplace_back; m_size++ is evaluated before T's constructor runs,
\* and the constructor of T from the arguments may throw (ctorOk = FALSE)
emplace_back(w, x, args, ctorOk, allocOk) ==
    LET a == w.arr[x]
        w1 == IF ToLen(a.m_size + 1) > a.m_capacity
              THEN grow(w, x, IF a.m_capacity # 0 THEN ToLen(2 * a.m_capacity) ELSE 1, allocOk)
              ELSE w
        w2 == [w1 EXCEPT !.arr[x].m_size = ToLen(a.m_size + 1)]
    IN IF w1.exc # "none" THEN w1
       ELSE IF ~ctorOk THEN Throw(w2, "ctor_failed")
       ELSE lastElem(ConstructAt(w2, w2.arr[x].m_storage, a.m_size, args), x)

\* the predicates a caller passes to linearSearch
Preds == <<"equals", "greater">>
Holds(pred, e, value) == IF pred = "equals" THEN e = value ELSE e > value

\* the three-way predicates a caller passes to binarySearch: negative, zero or
\* positive as the element comes before, with or after the value
ThreeWay == <<"ascending", "descending">>
Compare(pred, e, value) == IF pred = "ascending" THEN e - value ELSE value - e

\* the loop of linearSearch
RECURSIVE LinearLoop(_, _, _, _, _)
LinearLoop(w, x, i, value, pred) ==
    IF i < w.arr[x].m_size
    THEN LET w1 == At(w, x, i)
         IN IF w1.exc # "none" \/ w1.ub THEN w1
            ELSE IF Holds(pred, w1.ret, value) THEN Return(w, i)
            ELSE LinearLoop(w, x, ToLen(i + 1), value, pred)
    ELSE Return(w, i)


\* a linearSearch that skips the first element
linearSearch_FromOne(w, x, value, pred) == LinearLoop(w, x, 1, value, pred)

\* dynamic_array::linearSearch
linearSearch(w, x, value, pred) == LinearLoop(w, x, 0, value, pred)

\* the loop of binarySearch; imin, imax and imid are ints
RECURSIVE BinaryLoop(_, _, _, _, _, _)
BinaryLoop(w, x, imin, imax, value, pred) ==
    IF imin < imax
    THEN LET imid == (imin + imax) \div 2
             w1 == At(w, x, ToLen(imid))
         IN IF w1.exc # "none" \/ w1.ub THEN w1
            ELSE IF Compare(pred, w1.ret, value) < 0
                 THEN BinaryLoop(w, x, imid + 1, imax, value, pred)
                 ELSE BinaryLoop(w, x, imin, imid, value, pred)
    ELSE Return(w, ToLen(imin))


\* a binarySearch over [0, size]: it never calls last_index and returns size
\* when every element comes before the value
binarySearch_UpToSize(w, x, value, pred) ==
    BinaryLoop(w, x, 0, ToInt(w.arr[x].m_size), value, pred)

\* dynamic_array::binarySearch
binarySearch(w, x, value, pred) ==
    LET w1 == last_index(w, x)
    IN IF w1.exc # "none" THEN w1
       ELSE BinaryLoop(w, x, 0, ToInt(w1.ret), value, pred)

\* the loop of shift_remove: (*this)[i - 1] = std::move((*this)[i])
RECURSIVE ShiftLoop(_, _, _)
ShiftLoop(w, x, i) ==
    IF ToLen(i) < w.arr[x].m_size /\ ~w.ub
    THEN LET b == w.arr[x].m_storage
             w1 == AssignAt(w, b, i - 1, ReadAt(w, b, i))
             w2 == AssignAt(w1, b, i, Moved)
         IN ShiftLoop(w2, x, i + 1)
    ELSE w


\* a shift_remove that shifts nothing
shift_remove_NoShift(w, x, index) ==
    IF OutOfRange(w, x, ToLen(index)) THEN Throw(w, "out_of_range")
    ELSE pop_back(w, x)

\* dynamic_array::shift_remove
shift_remove(w, x, index) ==
    IF OutOfRange(w, x, ToLen(index)) THEN Throw(w, "out_of_range")
    ELSE pop_back(ShiftLoop(w, x, index + 1), x)

\* swap((*this)[i], (*this)[j])
SwapElems(w, x, i, j) ==
    LET b == w.arr[x].m_storage
    IN AssignAt(AssignAt(w, b, i, ReadAt(w, b, j)), b, j, ReadAt(w, b, i))


\* a swap_remove that exchanges nothing
swap_remove_NoSwap(w, x, index) ==
    IF OutOfRange(w, x, ToLen(index)) THEN Throw(w, "out_of_range")
    ELSE pop_back(w, x)

\* dynamic_array::swap_remove
swap_remove(w, x, index) ==
    IF OutOfRange(w, x, ToLen(index)) THEN Throw(w, "out_of_range")
    ELSE LET w1 == IF ToLen(index) < ToLen(w.arr[x].m_size - 1)
                   THEN SwapElems(w, x, index, ToLen(w.arr[x].m_size - 1))
                   ELSE w
         IN pop_back(w1, x)

\* dynamic_array::clear
clear(w, x) == [RemoveLoop(w, x, 0) EXCEPT !.arr[x].m_size = 0]

\* the loop of the fill constructor: i < m_size is read again on every turn
RECURSIVE FillLoop(_, _, _, _, _)
FillLoop(w, x, i, val, allocOk) ==
    IF i < w.arr[x].m_size /\ w.exc = "none" /\ ~w.ub
    THEN FillLoop(push_back(w, x, val, allocOk), x, ToLen(i + 1), val, allocOk)
    ELSE w

\* dynamic_array(length_t count, const T &val)
CtorFill(w, x, count, val, allocOk) ==
    LET w1 == CtorCapacity(w, x, count, allocOk)
    IN IF w1.exc # "none" THEN w1 ELSE FillLoop(w1, x, 0, val, allocOk)

\* the loop of the copy constructor: push_back(other[i]).  The copy of element
\* failAt into the parameter throws; the constructor delegates, so the destructor
\* of the object under construction then runs.
RECURSIVE CopyLoop(_, _, _, _, _, _)
CopyLoop(w, x, other, i, failAt, allocOk) ==
    IF i < w.arr[other].m_size /\ ~w.ub
    THEN LET w1 == At(w, other, i)
         IN IF w1.exc # "none" THEN Throw(Dtor(w, x), w1.exc)
            ELSE IF w1.ub THEN w1
            ELSE IF i = failAt THEN Throw(Dtor(w, x), "copy_failed")
            ELSE LET w2 == push_back(w, x, w1.ret, allocOk)
                 IN IF w2.exc # "none" THEN Throw(Dtor(w2, x), w2.exc)
                    ELSE CopyLoop(w2, x, other, i + 1, failAt, allocOk)
    ELSE w

\* a memberwise copy: the new array points at the block of the other
CtorCopy_Shared(w, x, other, failAt, allocOk) ==
    [w EXCEPT !.arr[x] = w.arr[other]]

\* dynamic_array(const dynamic_array<T> &other)
CtorCopy(w, x, other, failAt, allocOk) ==
    LET w1 == CtorCapacity(w, x, w.arr[other].m_capacity, allocOk)
    IN IF w1.exc # "none" THEN w1 ELSE CopyLoop(w1, x, other, 0, failAt, allocOk)

\* a swap that forgets the sizes
swap_KeepSize(w, first_, second) ==
    [w EXCEPT !.arr[first_].m_capacity = w.arr[second].m_capacity,
              !.arr[second].m_capacity = w.arr[first_].m_capacity,
              !.arr[first_].m_storage = w.arr[second].m_storage,
              !.arr[second].m_storage = w.arr[first_].m_storage]

\* friend swap(first, second)
swap(w, first_, second) ==
    [w EXCEPT !.arr[first_].m_capacity = w.arr[second].m_capacity,
              !.arr[second].m_capacity = w.arr[first_].m_capacity,
              !.arr[first_].m_size = w.arr[second].m_size,
              !.arr[second].m_size = w.arr[first_].m_size,
              !.arr[first_].m_storage = w.arr[second].m_storage,
              !.arr[second].m_storage = w.arr[first_].m_storage]

\* dynamic_array(dynamic_array<T> &&other)
CtorMove(w, x, other, allocOk) ==
    LET w1 == CtorCapacity(w, x, 0, allocOk)
    IN IF w1.exc # "none" THEN w1 ELSE swap(w1, x, other)

\* an operator= whose parameter is never destroyed
AssignCopy_KeepOld(w, x, y, failAt, allocOk) ==
    LET w1 == CtorCopy(w, Param, y, failAt, allocOk)
    IN IF w1.exc # "none" THEN w1 ELSE [swap(w1, x, Param) EXCEPT !.arr[Param] = NoArray]

\* operator=(dynamic_array<T> other) called with an lvalue: the parameter is a copy
AssignCopy(w, x, y, failAt, allocOk) ==
    LET w1 == CtorCopy(w, Param, y, failAt, allocOk)
    IN IF w1.exc # "none" THEN w1 ELSE Dtor(swap(w1, x, Param), Param)

\* operator=(dynamic_array<T> other) called with an rvalue: the parameter is moved into
AssignMove(w, x, y, allocOk) ==
    LET w1 == CtorMove(w, Param, y, allocOk)
    IN IF w1.exc # "none" THEN w1 ELSE Dtor(swap(w1, x, Param), Param)

\* ---- the state machine ----
Outcome(w) == IF w.ub THEN "undefined" ELSE IF w.exc = "none" THEN "ok" ELSE w.exc

Call(op, x, i, v) == [op |-> op, a |-> x, i |-> i, v |-> v]

\* a call that failed to allocate is recorded without its arguments
Commit(w, call) ==
    /\ arr' = w.arr
    /\ heap' = w.heap
    /\ lifeErr' = w.lifeErr
    /\ heapErr' = w.heapErr
    /\ ub' = w.ub
    /\ last' = [op |-> call.op, a |-> call.a,
                i |-> IF Outcome(w) = "bad_alloc" THEN 0 ELSE call.i,
                v |-> IF Outcome(w) = "bad_alloc" THEN 0 ELSE call.v,
                res |-> Outcome(w), ret |-> IF Outcome(w) = "ok" THEN w.ret ELSE 0]

Init ==
    /\ arr = [x \in Names |-> NoArray]
    /\ heap = [b \in Blocks |-> NoBlock]
    /\ lifeErr = FALSE
    /\ heapErr = FALSE
    /\ ub = FALSE
    /\ last = [op |-> "none", a |-> "foos", i |-> 0, v |-> 0, res |-> "ok", ret |-> 0]

Live(x) == ~ub /\ arr[x].alive
Dead(x) == ~ub /\ ~arr[x].alive

\* the indices a caller passes: length_t ones and int ones
Indices == 0..MaxSize
IntIndices == -1..MaxSize
\* which element copy fails in a copy construction; -1: none
CopyFailures(y) == -1..(arr[y].m_size - 1)

ConstructDefault(x) ==
    /\ Dead(x)
    /\ \E allocOk \in AllocOutcomes(World) :
          Commit(CtorCapacity(World, x, 0, allocOk), Call("ctor", x, 0, 0))

ConstructCapacity(x, maxCap) ==
    /\ Dead(x)
    /\ \E capacity \in 1..maxCap, allocOk \in AllocOutcomes(World) :
          Commit(CtorCapacity(World, x, capacity, allocOk), Call("ctor_capacity", x, capacity, 0))

ConstructFill(x, maxCap) ==
    /\ Dead(x)
    /\ \E count \in 0..maxCap, val \in Val, allocOk \in AllocOutcomes(World) :
          Commit(CtorFill(World, x, count, val, allocOk), Call("ctor_fill", x, count, val))

ConstructCopy(x) ==
    /\ Dead(x)
    /\ \E y \in Arrays \ {x} :
          /\ Live(y)
          /\ \E failAt \in CopyFailures(y), allocOk \in AllocOutcomes(World) :
                Commit(CtorCopy(World, x, y, failAt, allocOk), Call("ctor_copy", x, failAt, 0))

ConstructMove(x) ==
    /\ Dead(x)
    /\ \E y \in Arrays \ {x} :
          /\ Live(y)
          /\ \E allocOk \in AllocOutcomes(World) :
                Commit(CtorMove(World, x, y, allocOk), Call("ctor_move", x, 0, 0))

CopyAssign(x) ==
    /\ Live(x)
    /\ \E y \in Arrays :
          /\ Live(y)
          /\ \E failAt \in CopyFailures(y), allocOk \in AllocOutcomes(World) :
                Commit(AssignCopy(World, x, y, failAt, allocOk),
                       Call(IF x = y THEN "assign_self" ELSE "assign_copy", x, failAt, 0))

MoveAssign(x) ==
    /\ Live(x)
    /\ \E y \in Arrays :
          /\ Live(y)
          /\ \E allocOk \in AllocOutcomes(World) :
                Commit(AssignMove(World, x, y, allocOk),
                       Call(IF x = y THEN "assign_move_self" ELSE "assign_move", x, 0, 0))

Swap(x) ==
    /\ Live(x)
    /\ \E y \in Arrays \ {x} :
          /\ Live(y)
          /\ Commit(swap(World, x, y), Call("swap", x, 0, 0))

Destroy(x) ==
    /\ Live(x)
    /\ Commit(Dtor(World, x), Call("dtor", x, 0, 0))

PushBack(x, maxSize, maxVal) ==
    /\ Live(x)
    /\ arr[x].m_size < maxSize
    /\ \E element \in 1..maxVal, allocOk \in AllocOutcomes(World) :
          Commit(push_back(World, x, element, allocOk), Call("push_back", x, 0, element))

EmplaceBack(x, maxSize) ==
    /\ Live(x)
    /\ arr[x].m_size < maxSize
    /\ \E args \in Val, ctorOk \in BOOLEAN, allocOk \in AllocOutcomes(World) :
          Commit(emplace_back(World, x, args, ctorOk, allocOk), Call("emplace_back", x, 0, args))

\* the pushes of main's loop: the element pushed at size i holds the number i
\* (from 1 here), so that every element tells its place
PushBackNumbered(x, maxSize) ==
    /\ Live(x)
    /\ arr[x].m_size < maxSize
    /\ \E allocOk \in AllocOutcomes(World) :
          Commit(push_back(World, x, arr[x].m_size + 1, allocOk),
                 Call("push_back", x, 0, arr[x].m_size + 1))

PushBackElement(x, maxSize) ==
    /\ Live(x)
    /\ arr[x].m_size < maxSize
    /\ \E index \in Indices, copyOk \in BOOLEAN, allocOk \in AllocOutcomes(World) :
          Commit(push_back_of(World, x, index, copyOk, allocOk),
                 Call("push_back_element", x, index, 0))

PopBack(x) ==
    /\ Live(x)
    /\ Commit(pop_back(World, x), Call("pop_back", x, 0, 0))

ShiftRemove(x) ==
    /\ Live(x)
    /\ \E index \in IntIndices :
          Commit(shift_remove(World, x, index), Call("shift_remove", x, index, 0))

SwapRemove(x) ==
    /\ Live(x)
    /\ \E index \in IntIndices :
          Commit(swap_remove(World, x, index), Call("swap_remove", x, index, 0))

Clear(x) ==
    /\ Live(x)
    /\ Commit(clear(World, x), Call("clear", x, 0, 0))

Subscript(x) ==
    /\ Live(x)
    /\ \E index \in Indices, form \in {"operator[]", "operator[] const"} :
          Commit(At(World, x, index), Call(form, x, index, 0))

First(x) ==
    /\ Live(x)
    /\ Commit(first(World, x), Call("first", x, 0, 0))

Last(x) ==
    /\ Live(x)
    /\ Commit(lastElem(World, x), Call("last", x, 0, 0))

LastIndex(x) ==
    /\ Live(x)
    /\ Commit(last_index(World, x), Call("last_index", x, 0, 0))

\* the values a caller searches for: those of the elements, one below and one above
SearchVals(maxVal) == 0..(maxVal + 1)

\* the call is recorded with the number of its predicate
LinearSearch(x, maxVal) ==
    /\ Live(x)
    /\ \E value \in SearchVals(maxVal), p \in DOMAIN Preds :
          Commit(linearSearch(World, x, value, Preds[p]), Call("linearSearch", x, p, value))

BinarySearch(x, maxVal) ==
    /\ Live(x)
    /\ \E value \in SearchVals(maxVal), p \in DOMAIN ThreeWay :
          Commit(binarySearch(World, x, value, ThreeWay[p]), Call("binarySearch", x, p, value))

\* one array and the operations on it alone
Next ==
    \/ ConstructDefault("foos")
    \/ ConstructCapacity("foos", MaxCap)
    \/ ConstructFill("foos", MaxCap)
    \/ Destroy("foos")
    \/ PushBack("foos", MaxSize, MaxVal)
    \/ EmplaceBack("foos", MaxSize)
    \/ PopBack("foos")
    \/ ShiftRemove("foos")
    \/ SwapRemove("foos")
    \/ Clear("foos")
    \/ Subscript("foos")
    \/ First("foos")
    \/ Last("foos")
    \/ LastIndex("foos")

Spec == Init /\ [][Next]_vars

\* two arrays: copies, moves and assignments between them
NextPair ==
    \E x \in Arrays :
        \/ ConstructDefault(x)
        \/ ConstructCapacity(x, MaxPairCap)
        \/ ConstructCopy(x)
        \/ ConstructMove(x)
        \/ CopyAssign(x)
        \/ MoveAssign(x)
        \/ Swap(x)
        \/ Destroy(x)
        \/ PushBack(x, MaxPairSize, MaxPairVal)
        \/ PopBack(x)
        \/ Clear(x)

SpecPair == Init /\ [][NextPair]_vars

\* a default-constructed array that is only pushed to
InitGrowth ==
    LET w == CtorCapacity([arr |-> [x \in Names |-> NoArray], heap |-> [b \in Blocks |-> NoBlock],
                           lifeErr |-> FALSE, heapErr |-> FALSE, ub |-> FALSE,
                           exc |-> "none", ret |-> 0], "foos", 0, TRUE)
    IN /\ arr = w.arr
       /\ heap = w.heap
       /\ lifeErr = FALSE
       /\ heapErr = FALSE
       /\ ub = FALSE
       /\ last = [op |-> "ctor", a |-> "foos", i |-> 0, v |-> 0, res |-> "ok", ret |-> 0]

NextGrowth == PushBack("foos", MaxPushes, MaxVal)

SpecGrowth == InitGrowth /\ [][NextGrowth]_vars

\* one array that is pushed to, also from its own elements
NextSelf ==
    \/ ConstructDefault("foos")
    \/ ConstructCapacity("foos", MaxCap)
    \/ Destroy("foos")
    \/ PushBack("foos", MaxSize, MaxVal)
    \/ PushBackElement("foos", MaxSize)

SpecSelf == Init /\ [][NextSelf]_vars

\* one array that is filled and searched
NextSearch ==
    \/ ConstructDefault("foos")
    \/ PushBack("foos", MaxSearchSize, MaxSearchVal)
    \/ LinearSearch("foos", MaxSearchVal)
    \/ BinarySearch("foos", MaxSearchVal)

SpecSearch == Init /\ [][NextSearch]_vars

\* one array of any capacity the length type can hold, filled up and pushed to
NextCapacities ==
    \/ ConstructDefault("foos")
    \/ ConstructCapacity("foos", LenMod - 1)
    \/ PushBack("foos", LenMod, MaxPairVal)

SpecCapacities == Init /\ [][NextCapacities]_vars

\* step A in a run in which no allocation and no copy of an element fails
Unfailing(A) == A /\ last'.res \notin {"bad_alloc", "copy_failed"}

\* two arrays filled as main fills them: copies, moves and assignments between
\* them and changes to either, in the runs in which nothing fails
NextCopies ==
    \E x \in Arrays :
        \/ Unfailing(ConstructDefault(x))
        \/ Unfailing(ConstructCapacity(x, MaxPairCap))
        \/ Unfailing(ConstructCopy(x))
        \/ Unfailing(ConstructMove(x))
        \/ Unfailing(CopyAssign(x))
        \/ Unfailing(MoveAssign(x))
        \/ Destroy(x)
        \/ Unfailing(PushBackNumbered(x, MaxCopySize))
        \/ PopBack(x)
        \/ Clear(x)

SpecCopies == Init /\ [][NextCopies]_vars

\* ---- what the claims speak of ----
\* (the state is passed as arrays ar and heap hp, so that a formula can speak of
\* the state before a step and of the state after it)
SlotsIn(ar, hp, x) == hp[ar[x].m_storage].slots

\* array x owns a live block of m_capacity slots of which exactly the first m_size hold an element
WellFormedIn(ar, hp, x) ==
    /\ ar[x].alive
    /\ ar[x].m_storage # Null
    /\ hp[ar[x].m_storage].live
    /\ Len(SlotsIn(ar, hp, x)) = ar[x].m_capacity
    /\ ar[x].m_size <= ar[x].m_capacity
    /\ \A k \in 1..Len(SlotsIn(ar, hp, x)) : (SlotsIn(ar, hp, x)[k] # Raw) <=> (k <= ar[x].m_size)

\* the elements of a well-formed array, in order
ElemsIn(ar, hp, x) == SubSeq(SlotsIn(ar, hp, x), 1, ar[x].m_size)

Slots(x) == SlotsIn(arr, heap, x)
WellFormed(x) == WellFormedIn(arr, heap, x)
Elems(x) == ElemsIn(arr, heap, x)

\* the last call was op on array x
Did(op, x) == last.op = op /\ last.a = x
\* the step is the call op on array x
Does(l, op, x) == l.op = op /\ l.a = x

\* C1: after every call of any sequence of public operations, also a call on an
\* empty array and a call that fails, size() <= capacity()
C1_SizeWithinCapacity ==
    \A x \in Arrays : arr[x].alive => arr[x].m_size <= arr[x].m_capacity

\* C2: pop_back() on an array of size 0 raises out_of_range and leaves size and
\* capacity as they were
C2_PopBackOnEmptyRaises ==
    [][\A x \in Arrays :
          (Does(last', "pop_back", x) /\ arr[x].alive /\ arr[x].m_size = 0)
          => /\ last'.res = "out_of_range"
             /\ arr'[x].m_size = arr[x].m_size
             /\ arr'[x].m_capacity = arr[x].m_capacity]_vars

\* C3: dynamic_array(count, value) yields size = count = capacity and value in
\* every slot 0..count-1, for every count >= 0
C3_FillConstructor ==
    \A x \in Arrays :
        (Did("ctor_fill", x) /\ last.res = "ok")
        => /\ arr[x].m_size = last.i
           /\ arr[x].m_capacity = last.i
           /\ WellFormed(x)
           /\ \A k \in 1..arr[x].m_size : Slots(x)[k] = last.v

IndexOps == {"operator[]", "operator[] const", "shift_remove", "swap_remove"}
EndOps == {"first", "last", "last_index"}

\* C4: an index-based operation raises out_of_range exactly when its index is
\* >= size (first, last, last_index: exactly when size = 0); an accepted index
\* reads the element at that very index, and a raising call changes nothing
C4_BoundsCheck ==
    [][\A x \in Arrays :
          (last'.a = x /\ arr[x].alive)
          => /\ last'.op \in IndexOps
                => ((last'.res = "out_of_range") <=> (last'.i < 0 \/ last'.i >= arr[x].m_size))
             /\ last'.op \in EndOps
                => ((last'.res = "out_of_range") <=> (arr[x].m_size = 0))
             /\ (last'.op \in {"operator[]", "operator[] const"} /\ last'.res = "ok")
                => last'.ret = Slots(x)[last'.i + 1]
             /\ (last'.op = "first" /\ last'.res = "ok") => last'.ret = Slots(x)[1]
             /\ (last'.op = "last" /\ last'.res = "ok") => last'.ret = Slots(x)[arr[x].m_size]
             /\ (last'.op = "last_index" /\ last'.res = "ok") => last'.ret = arr[x].m_size - 1
             /\ last'.res = "out_of_range" => (arr' = arr /\ heap' = heap)]_vars

\* index 0 of a non-empty array was accepted
C4_Witness ==
    /\ Did("operator[]", "foos")
    /\ last.i = 0
    /\ last.res = "ok"
    /\ arr["foos"].m_size >= 1
    /\ last.ret = Slots("foos")[1]

\* no call so far was made against its precondition (pop_back on an empty array)
PreconditionsHeld ==
    ~(last.op = "pop_back" /\ last.res = "undefined" /\ arr[last.a].m_size = LenMod - 1)

\* C5: while every call's precondition holds, exactly the slots [0, size) hold a
\* live element, and no element is destroyed twice or constructed over a live one
C5_LivePrefix ==
    PreconditionsHeld
    => /\ ~lifeErr
       /\ \A x \in Arrays : arr[x].alive => WellFormed(x)

\* the arrays (the parameter of operator= among them) that own block b
Owners(b) == {x \in Names : arr[x].alive /\ arr[x].m_storage = b}

RECURSIVE Doubled(_, _)
Doubled(c, k) == IF c >= k THEN c ELSE Doubled(2 * c, k)
\* the smallest power of two >= k, reached by doubling from 1
Pow2Ceil(k) == Doubled(1, k)

\* C7: from a default-constructed array, the k-th push_back in a row leaves
\* size = k and capacity = the smallest power of two >= k
C7_GrowthDoubling ==
    [][(Does(last', "push_back", "foos") /\ last'.res = "ok")
       => /\ arr'["foos"].m_size = arr["foos"].m_size + 1
          /\ arr'["foos"].m_capacity = Pow2Ceil(arr'["foos"].m_size)]_vars

\* the fifth push_back has grown the array to capacity 8
C7_Witness ==
    /\ Did("push_back", "foos")
    /\ last.res = "ok"
    /\ arr["foos"].m_size = 5
    /\ arr["foos"].m_capacity = 8

\* C8: push_back and emplace_back reallocate iff size + 1 > capacity; with
\* size < capacity the capacity and the buffer stay; in both cases the elements
\* keep value and index, size grows by 1 and the new element is the last one
C8_InsertionFrame ==
    [][\A x \in Arrays :
          (last'.a = x /\ last'.op \in {"push_back", "emplace_back"} /\ last'.res = "ok"
             /\ WellFormed(x))
          => /\ (arr'[x].m_storage # arr[x].m_storage) <=> (arr[x].m_size + 1 > arr[x].m_capacity)
             /\ arr[x].m_size < arr[x].m_capacity
                => (arr'[x].m_capacity = arr[x].m_capacity /\ arr'[x].m_storage = arr[x].m_storage)
             /\ arr'[x].m_size = arr[x].m_size + 1
             /\ WellFormedIn(arr', heap', x)
             /\ ElemsIn(arr', heap', x) = Append(Elems(x), last'.v)]_vars

\* a push_back into a full array of two elements has reallocated
C8_Witness ==
    /\ Did("push_back", "foos")
    /\ last.res = "ok"
    /\ arr["foos"].m_size = 3
    /\ arr["foos"].m_capacity = 4
    /\ WellFormed("foos")

\* s without its element at index i (from 0)
RemoveAt(s, i) == SubSeq(s, 1, i) \o SubSeq(s, i + 2, Len(s))

\* C9: shift_remove(i), i < size, leaves the other elements in their order, size
\* one less and the capacity as it was; for the last index it does what pop_back does
C9_ShiftRemove ==
    [][\A x \in Arrays :
          (Does(last', "shift_remove", x) /\ WellFormed(x)
             /\ last'.i >= 0 /\ last'.i < arr[x].m_size)
          => /\ last'.res = "ok"
             /\ WellFormedIn(arr', heap', x)
             /\ ElemsIn(arr', heap', x) = RemoveAt(Elems(x), last'.i)
             /\ arr'[x].m_size = arr[x].m_size - 1
             /\ arr'[x].m_capacity = arr[x].m_capacity
             /\ last'.i = arr[x].m_size - 1
                => (arr' = pop_back(World, x).arr /\ heap' = pop_back(World, x).heap)]_vars

\* the middle one of three elements was removed
C9_Witness ==
    /\ Did("shift_remove", "foos")
    /\ last.res = "ok"
    /\ last.i = 1
    /\ arr["foos"].m_size = 2
    /\ Elems("foos") = <<1, 2>>

\* how many times v occurs in s
Count(s, v) == Cardinality({k \in 1..Len(s) : s[k] = v})

\* C10: swap_remove(i), i < size, makes size one less, removes one occurrence of
\* e_i from the multiset of elements, puts the former last element at i when i
\* was not the last index, keeps every other element at its index, and for the
\* last index does what pop_back does
C10_SwapRemove ==
    [][\A x \in Arrays :
          (Does(last', "swap_remove", x) /\ WellFormed(x)
             /\ last'.i >= 0 /\ last'.i < arr[x].m_size)
          => /\ last'.res = "ok"
             /\ WellFormedIn(arr', heap', x)
             /\ arr'[x].m_size = arr[x].m_size - 1
             /\ arr'[x].m_capacity = arr[x].m_capacity
             /\ \A v \in Val : Count(ElemsIn(arr', heap', x), v)
                                 = Count(Elems(x), v) - (IF Elems(x)[last'.i + 1] = v THEN 1 ELSE 0)
             /\ \A k \in 1..(arr[x].m_size - 1) :
                   ElemsIn(arr', heap', x)[k] = IF k = last'.i + 1 THEN Elems(x)[arr[x].m_size] ELSE Elems(x)[k]
             /\ last'.i = arr[x].m_size - 1
                => (arr' = pop_back(World, x).arr /\ heap' = pop_back(World, x).heap)]_vars

\* the first of three elements was removed and the last one took its place
C10_Witness ==
    /\ Did("swap_remove", "foos")
    /\ last.res = "ok"
    /\ last.i = 0
    /\ arr["foos"].m_size = 2
    /\ Elems("foos") = <<2, 1>>

\* C13: when the allocation of a growth triggered by push_back or emplace_back
\* fails, the array keeps its size, capacity, block and elements; a growth whose
\* allocation succeeds relocates every element into the new block without
\* touching a released block, and the old block is released when the call ends
C13_GrowthFailureSafe ==
    [][\A x \in Arrays :
          (last'.a = x /\ last'.op \in {"push_back", "emplace_back"} /\ WellFormed(x)
             /\ arr[x].m_size + 1 > arr[x].m_capacity)
          => /\ last'.res = "bad_alloc" => (arr' = arr /\ heap' = heap)
             /\ last'.res # "bad_alloc"
                => /\ last'.res # "undefined"
                   /\ ~heapErr' /\ ~lifeErr'
                   /\ arr'[x].m_storage # arr[x].m_storage
                   /\ ~heap'[arr[x].m_storage].live
                   /\ heap'[arr'[x].m_storage].live
                   /\ SubSeq(SlotsIn(arr', heap', x), 1, arr[x].m_size) = Elems(x)]_vars

\* a push_back into a full array of two elements failed to allocate
C13_Witness ==
    /\ Did("push_back", "foos")
    /\ last.res = "bad_alloc"
    /\ arr["foos"].m_size = 2
    /\ arr["foos"].m_capacity = 2
    /\ WellFormed("foos")

\* C14: push_back(arr[i]) with i < size, when neither the copy of the element
\* nor an allocation fails, appends the value arr[i] had before the call and
\* leaves the prior elements as they were, also when the call reallocates
C14_PushBackOwnElement ==
    [][\A x \in Arrays :
          (Does(last', "push_back_element", x) /\ WellFormed(x) /\ last'.i < arr[x].m_size)
          => /\ last'.res \in {"ok", "bad_alloc", "copy_failed"}
             /\ last'.res = "ok"
                => /\ WellFormedIn(arr', heap', x)
                   /\ ElemsIn(arr', heap', x) = Append(Elems(x), Elems(x)[last'.i + 1])
                   /\ ~heapErr' /\ ~lifeErr'
             /\ last'.res # "ok" => (arr' = arr /\ heap' = heap)]_vars

\* the first element of a full array <<1, 2>> was pushed and the array reallocated
C14_Witness ==
    /\ Did("push_back_element", "foos")
    /\ last.res = "ok"
    /\ last.i = 0
    /\ arr["foos"].m_capacity = 4
    /\ WellFormed("foos")
    /\ Elems("foos") = <<1, 2, 1>>

\* s is ordered by the three-way predicate
SortedUnder(pred, s) == \A k \in 1..(Len(s) - 1) : Compare(pred, s[k], s[k + 1]) <= 0

\* C15 (non-empty arrays; the empty one is the matter of C20): on an array sorted
\* under the three-way predicate, binarySearch returns for every value the
\* leftmost index i with element[i] >= value: the element at the returned index
\* does not come before the value, and every element left of it does
C15_BinarySearchLeftmost ==
    [][\A x \in Arrays :
          (Does(last', "binarySearch", x) /\ WellFormed(x) /\ arr[x].m_size > 0
             /\ SortedUnder(ThreeWay[last'.i], Elems(x)))
          => /\ last'.res = "ok"
             /\ last'.ret < arr[x].m_size
             /\ Compare(ThreeWay[last'.i], Elems(x)[last'.ret + 1], last'.v) >= 0
             /\ \A k \in 1..last'.ret : Compare(ThreeWay[last'.i], Elems(x)[k], last'.v) < 0]_vars

\* the index linear_search is to return: the first match, or the size
FirstMatch(s, pred, value) ==
    IF \E k \in 1..Len(s) : Holds(pred, s[k], value)
    THEN (CHOOSE k \in 1..Len(s) :
             Holds(pred, s[k], value) /\ \A j \in 1..(k - 1) : ~Holds(pred, s[j], value)) - 1
    ELSE Len(s)

\* C16: linearSearch returns the smallest index whose element satisfies the
\* predicate with the value, the size when there is none (0 on an empty array,
\* raising nothing), and leaves the array as it was
C16_LinearSearch ==
    [][\A x \in Arrays :
          (Does(last', "linearSearch", x) /\ WellFormed(x))
          => /\ last'.res = "ok"
             /\ last'.ret = FirstMatch(Elems(x), Preds[last'.i], last'.v)
             /\ arr' = arr
             /\ heap' = heap]_vars

\* a value that is no element of <<1, 2, 3>> was searched for, and 3 returned
C16_Witness ==
    /\ Did("linearSearch", "foos")
    /\ Preds[last.i] = "equals"
    /\ WellFormed("foos")
    /\ Elems("foos") = <<1, 2, 3>>
    /\ last.v = MaxSearchVal + 1
    /\ last.res = "ok"
    /\ last.ret = 3

\* C20: on a non-empty array binarySearch returns an index in [0, size - 1]
\* whatever the value and the outcomes of the predicate, never the size; on an
\* empty array it raises out_of_range; the array is left as it was
C20_BinarySearchInRange ==
    [][\A x \in Arrays :
          (Does(last', "binarySearch", x) /\ WellFormed(x))
          => /\ arr[x].m_size = 0 => last'.res = "out_of_range"
             /\ arr[x].m_size > 0 => (last'.res = "ok" /\ last'.ret \in 0..(arr[x].m_size - 1))
             /\ arr' = arr
             /\ heap' = heap]_vars

\* a value above every element of an unsorted array was searched for, and the
\* last index returned
C20_Witness ==
    /\ Did("binarySearch", "foos")
    /\ ThreeWay[last.i] = "ascending"
    /\ WellFormed("foos")
    /\ Elems("foos") = <<2, 1, 2>>
    /\ last.v = MaxSearchVal + 1
    /\ last.res = "ok"
    /\ last.ret = 2

\* C18: an array of capacity 0 owns no block, its storage is null (after default
\* construction, after construction with capacity 0, when moved from); an array
\* of capacity > 0 owns exactly one block, of exactly capacity slots
C18_NullStorageWhenEmpty ==
    \A x \in Arrays :
        (arr[x].alive /\ ~ub)
        => /\ arr[x].m_capacity = 0 => arr[x].m_storage = Null
           /\ arr[x].m_capacity > 0
              => /\ arr[x].m_storage # Null
                 /\ heap[arr[x].m_storage].live
                 /\ Len(Slots(x)) = arr[x].m_capacity
                 /\ Owners(arr[x].m_storage) = {x}

\* C19: for every capacity c of the length type, a push_back or emplace_back at
\* size = capacity = c whose allocation succeeds sets the capacity to
\* max(1, 2 * c), which is greater than c, and constructs the new element in a
\* slot of the new block (its index, c, is below the new capacity)
C19_GrowthForEveryCapacity ==
    [][\A x \in Arrays :
          (last'.a = x /\ last'.op \in {"push_back", "emplace_back"} /\ WellFormed(x)
             /\ arr[x].m_size = arr[x].m_capacity /\ last'.res # "bad_alloc")
          => /\ arr'[x].m_capacity = (IF arr[x].m_capacity = 0 THEN 1 ELSE 2 * arr[x].m_capacity)
             /\ arr'[x].m_capacity > arr[x].m_capacity
             /\ arr[x].m_size < arr'[x].m_capacity
             /\ last'.res # "undefined"]_vars

\* the other one of the two arrays
Other(x) == CHOOSE y \in Arrays : y # x

\* array y and its block are in (ar2, hp2) what they are now
SameArray(ar2, hp2, y) ==
    /\ ar2[y] = arr[y]
    /\ hp2[arr[y].m_storage] = heap[arr[y].m_storage]

\* C11: b = copy(a) gives b a block that was not allocated before, the capacity,
\* the size and the elements of a in their order, and leaves a as it was; b and a
\* share no block, and a push_back, pop_back or clear on one of two arrays leaves the
\* size and the elements of the other as they were
C11_CopyIndependent ==
    [][\A x \in Arrays :
          /\ (Does(last', "ctor_copy", x) /\ last'.res = "ok" /\ WellFormed(Other(x)))
             => /\ WellFormedIn(arr', heap', x)
                /\ ~heap[arr'[x].m_storage].live
                /\ arr'[x].m_storage # arr'[Other(x)].m_storage
                /\ arr'[x].m_capacity = arr[Other(x)].m_capacity
                /\ arr'[x].m_size = arr[Other(x)].m_size
                /\ ElemsIn(arr', heap', x) = Elems(Other(x))
                /\ SameArray(arr', heap', Other(x))
          /\ (last'.a = x /\ last'.op \in {"push_back", "pop_back", "clear"}
                /\ last'.res # "undefined" /\ WellFormed(Other(x)))
             => SameArray(arr', heap', Other(x))]_vars

\* foos_temp was copy-constructed from foos, which holds <<1, 2>>
C11_Witness ==
    /\ Did("ctor_copy", "foos_temp")
    /\ last.res = "ok"
    /\ WellFormed("foos") /\ WellFormed("foos_temp")
    /\ Elems("foos") = <<1, 2>>
    /\ Elems("foos_temp") = <<1, 2>>
    /\ arr["foos"].m_storage # arr["foos_temp"].m_storage

\* C12: b = move(a), by move construction or by operator=, hands the block of a
\* to b with its slots untouched: b has the block, size, capacity and elements a
\* had, and a is left with size 0 and capacity 0
C12_MoveTransfers ==
    [][\A x \in Arrays :
          (last'.a = x /\ last'.op \in {"ctor_move", "assign_move"} /\ last'.res = "ok"
             /\ WellFormed(Other(x)) /\ (last'.op = "assign_move" => WellFormed(x)))
          => /\ arr'[x].alive
             /\ arr'[x].m_storage = arr[Other(x)].m_storage
             /\ heap'[arr'[x].m_storage] = heap[arr[Other(x)].m_storage]
             /\ arr'[x].m_size = arr[Other(x)].m_size
             /\ arr'[x].m_capacity = arr[Other(x)].m_capacity
             /\ ElemsIn(arr', heap', x) = Elems(Other(x))
             /\ arr'[Other(x)].alive
             /\ arr'[Other(x)].m_size = 0
             /\ arr'[Other(x)].m_capacity = 0
             /\ ~heapErr' /\ ~lifeErr']_vars

\* foos, which held <<1, 2>>, was move-assigned to foos_temp
C12_Witness ==
    /\ Did("assign_move", "foos_temp")
    /\ last.res = "ok"
    /\ WellFormed("foos_temp")
    /\ Elems("foos_temp") = <<1, 2>>
    /\ arr["foos"].alive
    /\ arr["foos"].m_size = 0
    /\ arr["foos"].m_capacity = 0

\* C17: after a = b, a holds the elements of b in their order in a block of its
\* own, b is as it was, and the elements a held are destroyed and its former
\* block is released, once; a = a leaves size and elements of a as they were,
\* in a block that is allocated
C17_CopyAssignment ==
    [][\A x \in Arrays :
          /\ (Does(last', "assign_copy", x) /\ last'.res = "ok"
                /\ WellFormed(x) /\ WellFormed(Other(x)))
             => /\ WellFormedIn(arr', heap', x)
                /\ ElemsIn(arr', heap', x) = Elems(Other(x))
                /\ SameArray(arr', heap', Other(x))
                /\ arr'[x].m_storage \notin {arr[x].m_storage, arr[Other(x)].m_storage}
                /\ ~heap'[arr[x].m_storage].live
                /\ ~arr'[Param].alive
                /\ ~heapErr' /\ ~lifeErr'
          /\ (Does(last', "assign_self", x) /\ last'.res = "ok" /\ WellFormed(x))
             => /\ WellFormedIn(arr', heap', x)
                /\ arr'[x].m_size = arr[x].m_size
                /\ ElemsIn(arr', heap', x) = Elems(x)
                /\ ~heap'[arr[x].m_storage].live
                /\ ~arr'[Param].alive
                /\ ~heapErr' /\ ~lifeErr']_vars

\* foos, which holds <<1, 2>>, was copy-assigned to foos_temp, and their two
\* blocks are the only ones allocated
C17_Witness ==
    /\ Did("assign_copy", "foos_temp")
    /\ last.res = "ok"
    /\ WellFormed("foos") /\ WellFormed("foos_temp")
    /\ Elems("foos") = <<1, 2>>
    /\ Elems("foos_temp") = <<1, 2>>
    /\ arr["foos"].m_storage # arr["foos_temp"].m_storage
    /\ Cardinality({b \in Blocks : heap[b].live}) = 2

====
